---------------------------- MODULE Spec2Model ----------------------------
(***************************************************************************)
(* DHT11 single-wire reader (dht11.c): one ReadAndDisplayDHT11 cycle is    *)
(* the start pulse, the acknowledgment check, 5 x 8 bit reads, the         *)
(* checksum validation and the cool-down.  The data line is modelled as a  *)
(* waveform in whole microseconds: a sequence of <<level, duration>>       *)
(* phases the sensor drives, followed by a level the line rests at.        *)
(* Busy-wait polls without a delay take no model time; delay_us(n) and     *)
(* HAL_Delay(n) advance the waveform by their argument.                    *)
(***************************************************************************)
EXTENDS Integers, Sequences, FiniteSets, TLC

VARIABLES
    pc,          \* position of the single thread of control
    cycle,       \* calls of ReadAndDisplayDHT11 made so far
    pinMode,     \* "input" or "output" (GPIO mode of DHT_PIN)
    mcuOut,      \* level last written by HAL_GPIO_WritePin (open drain: 1 releases)
    wave,        \* remaining phases <<level, us>> the sensor drives
    rest,        \* level of the sensor side once the phases are over
    tick,        \* HAL tick: milliseconds spent in HAL_Delay
    timeout,     \* DHT11_CheckResponse: uint32_t timeout, as <<high, low>> halves
    response,    \* DHT11_CheckResponse: uint8_t response
    i,           \* DHT11_ReadByte: loop index
    byte,        \* DHT11_ReadByte: accumulated byte
    frame,       \* bytes returned by DHT11_ReadByte so far in this cycle
    led,         \* GPIOA pin 5
    out,         \* lines printed on the UART during this cycle
    hist,        \* observation record (does not influence the program)
    dwt          \* a call of delay_us with the DWT cycle counter it reads

mainVars == <<pc, cycle, pinMode, mcuOut, wave, rest, tick, timeout, response,
              i, byte, frame, led, out, hist>>

vars == <<mainVars, dwt>>

----------------------------------------------------------------------------
(* Bounds of the model *)

MaxCycles == 2
MaxPollLag == 1
MaxLoopCycles == 3
StallBits == 3

(* Program constants *)

StabilizeMs == 1
\* variant: a start pulse shorter than the sensor needs
StartLowMs_Short == 18 - 8
StartLowMs == 18
ReleaseUs == 30
AckTimeoutBudget == 100
AckHighUs == 80
DiscriminationUs == 40
\* variant: a cool-down that is a tenth of the documented one
CooldownMs_Short == 2000 \div 10
CooldownMs == 2000
BitsPerByte == 8
FrameLen == 5
PollStepUs == 1
HalfWord == 65536

(* Sensor timing (README, DHT11 Timing Overview) *)

AckLowUs == 80
AckHighPhaseUs == 80
BitLowUs == 50
OneHighUs == 70
ZeroHighs == {26, 28}
RespDelays == {20, 40}
LongLowUs == 200

(* Frames the sensor may send *)
Frames == { <<50, 0, 24, 0, 74>>,     \* valid, sum 74
            <<50, 0, 24, 0, 0>>,      \* checksum byte wrong
            <<200, 100, 0, 0, 44>>,   \* sum 300, low 8 bits 44
            <<170, 85, 1, 0, 0>>,     \* sum 256, low 8 bits 0
            <<255, 255, 255, 255, 252>> }  \* sum 1020, low 8 bits 252

Modes == {"ok", "absent", "stucklow", "noackhigh", "ackhighstuck", "bitstall"}

----------------------------------------------------------------------------
(* The line *)

Pow2(n) == 2 ^ n

\* bit k (0 = most significant) of an 8-bit value, as the sensor sends it
ByteBit(b, k) == (b \div Pow2(7 - k)) % 2

FrameBit(f, n) == ByteBit(f[((n - 1) \div BitsPerByte) + 1], (n - 1) % BitsPerByte)

HighUs(bit, zeroUs) == IF bit = 1 THEN OneHighUs ELSE zeroUs

BitPhases(f, zeroUs) ==
    [k \in 1..(2 * BitsPerByte * FrameLen) |->
        IF k % 2 = 1 THEN <<0, BitLowUs>>
                     ELSE <<1, HighUs(FrameBit(f, k \div 2), zeroUs)>>]

\* what the sensor drives from the instant the controller releases the line
Script(mode, rd, f, zeroUs) ==
    CASE mode = "ok" ->
            [w |-> <<<<1, rd>>, <<0, AckLowUs>>, <<1, AckHighPhaseUs>>>>
                   \o BitPhases(f, zeroUs) \o <<<<0, BitLowUs>>>>, r |-> 1]
      [] mode = "absent"       -> [w |-> <<>>, r |-> 1]
      [] mode = "stucklow"     -> [w |-> <<>>, r |-> 0]
      [] mode = "noackhigh"    -> [w |-> <<<<1, rd>>, <<0, LongLowUs>>>>, r |-> 1]
      [] mode = "ackhighstuck" -> [w |-> <<<<1, rd>>, <<0, AckLowUs>>>>, r |-> 1]
      \* the sensor acknowledges, sends StallBits bits and then holds the line low
      [] mode = "bitstall" ->
            [w |-> <<<<1, rd>>, <<0, AckLowUs>>, <<1, AckHighPhaseUs>>>>
                   \o SubSeq(BitPhases(f, zeroUs), 1, 2 * StallBits), r |-> 0]

RECURSIVE Advance(_, _)
Advance(w, n) ==
    IF w = <<>> THEN w
    ELSE IF Head(w)[2] > n THEN <<<<Head(w)[1], Head(w)[2] - n>>>> \o Tail(w)
    ELSE Advance(Tail(w), n - Head(w)[2])

SensorLevel(w, r) == IF w = <<>> THEN r ELSE Head(w)[1]

\* HAL_GPIO_ReadPin: open-drain line, low when either side pulls it low
ReadPin(mode, o, w, r) ==
    IF mode = "output" /\ o = 0 THEN 0 ELSE SensorLevel(w, r)

Line == ReadPin(pinMode, mcuOut, wave, rest)

\* microseconds until the sensor side is at level lvl; -1 when it never is
RECURSIVE TimeTo(_, _, _)
TimeTo(w, r, lvl) ==
    IF w = <<>> THEN (IF r = lvl THEN 0 ELSE -1)
    ELSE IF Head(w)[1] = lvl THEN 0
    ELSE LET t == TimeTo(Tail(w), r, lvl)
         IN IF t = -1 THEN -1 ELSE Head(w)[2] + t

\* whether the level the sensor holds now ends within n microseconds
EndsWithin(w, n) == w # <<>> /\ Head(w)[2] <= n


----------------------------------------------------------------------------
(* Arithmetic of the program *)

\* variant: bits filled in from the least significant end, 1U << i
OrBit_LsbFirst(b, k) == IF (b \div Pow2(k)) % 2 = 1 THEN b ELSE b + Pow2(k)

\* byte | (uint8_t)(1U << (7U - k))
OrBit(b, k) == IF ByteBit(b, k) = 1 THEN b ELSE b + Pow2(7 - k)

\* byte & (uint8_t)(~(1U << (7U - k)))
ClearBit(b, k) == IF ByteBit(b, k) = 1 THEN b - Pow2(7 - k) ELSE b

\* variant: the two branches of the bit decision exchanged
BitUpdate_Swapped(b, k, level) == IF level = 1 THEN ClearBit(b, k) ELSE OrBit(b, k)

\* the if/else of DHT11_ReadByte on the sample taken after the delay
BitUpdate(b, k, level) == IF level = 1 THEN OrBit(b, k) ELSE ClearBit(b, k)

\* variant: != written for ==
ChecksumValid_Negated(f) == f[5] # f[1] + f[2] + f[3] + f[4]

\* checksum == (rh_int + rh_dec + t_int + t_dec): the uint8_t operands are
\* promoted to int, so the sum is not reduced modulo 256
ChecksumValid(f) == f[5] = f[1] + f[2] + f[3] + f[4]

\* A uint32_t is kept as <<high half, low half>>, each half in 0..65535
\* (2^32 exceeds the integers of the model checker).
ToU32(n) == <<n \div HalfWord, n % HalfWord>>

\* t - 1 modulo 2^32
DecU32(t) ==
    IF t[2] > 0 THEN <<t[1], t[2] - 1>>
    ELSE IF t[1] > 0 THEN <<t[1] - 1, HalfWord - 1>>
    ELSE <<HalfWord - 1, HalfWord - 1>>

\* variant: the loop condition without its timeout, as in the line commented
\* out at dht11.c:223
PollCond_NoTimeout(level, t) ==
    [go |-> level = 1,
     t  |-> IF level = 1 THEN DecU32(t) ELSE t]

\* while (HAL_GPIO_ReadPin(...) && timeout--): whether the body runs, and the
\* value timeout holds afterwards (the decrement is skipped when the pin is low)
PollCond(level, t) ==
    [go |-> level = 1 /\ t # ToU32(0),
     t  |-> IF level = 1 THEN DecU32(t) ELSE t]

\* variant: the result of DHT11_CheckResponse is not tested
AckAccepted_Always(r) == TRUE

\* if (DHT11_CheckResponse())
AckAccepted(r) == r # 0

\* HAL_GPIO_TogglePin(GPIOA, GPIO_PIN_5)
TogglePin(l) == 1 - l

\* variant: temperature and humidity arguments exchanged
ReadingLine_Swapped(f) == <<"Humidity", f[3], f[4], "Temperature", f[1], f[2]>>

\* printf("Humidity: %d.%d %% RH \t Temperature: %d.%d deg C\r\n", ...)
ReadingLine(f) == <<"Humidity", f[1], f[2], "Temperature", f[3], f[4]>>

\* printf("DHT11 checksum error\r\n")
ErrorLine == <<"DHT11 checksum error">>

\* the waveforms a busy-wait for level lvl can leave behind: it ends at once
\* when the line is already there, up to MaxPollLag after the edge otherwise,
\* and never when the line never gets there
WaitFor(w, r, lvl) ==
    LET t == TimeTo(w, r, lvl)
    IN IF t = -1 THEN {}
       ELSE IF t = 0 THEN {w}
       ELSE {Advance(w, t + lag) : lag \in
                {l \in 0..MaxPollLag : SensorLevel(Advance(w, t + l), r) = lvl}}

----------------------------------------------------------------------------
(* Initial state: after reset and GPIO initialisation, nothing called yet *)

HistInit ==
    [mode |-> "none", sent |-> <<>>, polls |-> 0, calls |-> 0, samples |-> 0,
     sinceEdge |-> 0, fell |-> FALSE, cooled |-> FALSE, ledAtCall |-> 0,
     outcome |-> "none", prevOutcome |-> "none", emitTick |-> 0,
     prevEmitTick |-> 0, startTick |-> 0, ackLowTimedOut |-> FALSE,
     ackHigh |-> FALSE, lowSeen |-> FALSE, sinceLowCheck |-> 0,
     highSamples |-> 0, startLog |-> <<>>, bits |-> <<>>, toggles |-> 0, togglesAtCall |-> 0, readings |-> 0]

\* delay_us not being looked at
DwtIdle ==
    [pc |-> "off", us |-> <<0, 0>>, cpm |-> 0, cyccnt |-> <<0, 0>>,
     startTick |-> <<0, 0>>, delayTicks |-> <<0, 0>>, elapsed |-> 0]

MainInit ==
    /\ pc = "idle"
    /\ cycle = 0
    /\ pinMode = "input"
    /\ mcuOut = 0
    /\ wave = <<>>
    /\ rest = 1
    /\ tick = 0
    /\ timeout = ToU32(0)
    /\ response = 0
    /\ i = 0
    /\ byte = 0
    /\ frame = <<>>
    /\ led = 0
    /\ out = <<>>
    /\ hist = HistInit

Init == MainInit /\ dwt = DwtIdle

----------------------------------------------------------------------------
(* ReadAndDisplayDHT11, entry and start signal *)

Call ==
    /\ pc = "idle"
    /\ cycle < MaxCycles
    /\ cycle' = cycle + 1
    /\ pc' = "rd_stabilize"
    /\ frame' = <<>>
    /\ out' = <<>>
    /\ hist' = [HistInit EXCEPT !.ledAtCall = led,
                                !.prevOutcome = hist.outcome,
                                !.prevEmitTick = hist.emitTick,
                                !.emitTick = hist.emitTick,
                                !.startTick = hist.startTick,
                                !.toggles = hist.toggles,
                                !.togglesAtCall = hist.toggles,
                                !.readings = hist.readings]
    /\ UNCHANGED <<dwt, pinMode, mcuOut, wave, rest, tick, timeout, response, i,
                   byte, led>>

\* HAL_Delay(1)
Stabilize ==
    /\ pc = "rd_stabilize"
    /\ tick' = tick + StabilizeMs
    /\ wave' = Advance(wave, StabilizeMs * 1000)
    /\ pc' = "st_output"
    /\ UNCHANGED <<dwt, cycle, pinMode, mcuOut, rest, timeout, response, i, byte,
                   frame, led, out, hist>>

\* DHT11_SetPinOutput()
StartSetOutput ==
    /\ pc = "st_output"
    /\ pinMode' = "output"
    /\ hist' = [hist EXCEPT !.startLog = Append(@, <<"output", 0>>)]
    /\ pc' = "st_low"
    /\ UNCHANGED <<dwt, cycle, mcuOut, wave, rest, tick, timeout, response, i, byte,
                   frame, led, out>>

\* HAL_GPIO_WritePin(..., GPIO_PIN_RESET): the start pulse begins
StartPullLow ==
    /\ pc = "st_low"
    /\ mcuOut' = 0
    /\ hist' = [hist EXCEPT !.startLog = Append(@, <<"low", 0>>),
                            !.startTick = tick]
    /\ pc' = "st_hold"
    /\ UNCHANGED <<dwt, cycle, pinMode, wave, rest, tick, timeout, response, i, byte,
                   frame, led, out>>

\* HAL_Delay(18U)
StartHold ==
    /\ pc = "st_hold"
    /\ tick' = tick + StartLowMs
    /\ wave' = Advance(wave, StartLowMs * 1000)
    /\ hist' = [hist EXCEPT !.startLog = Append(@, <<"hold_ms", StartLowMs>>)]
    /\ pc' = "st_release"
    /\ UNCHANGED <<dwt, cycle, pinMode, mcuOut, rest, timeout, response, i, byte,
                   frame, led, out>>

\* HAL_GPIO_WritePin(..., GPIO_PIN_SET): the line is released and the sensor
\* (or whatever is on the line) takes over
StartRelease ==
    /\ pc = "st_release"
    /\ mcuOut' = 1
    /\ \E m \in Modes, rd \in RespDelays, f \in Frames, z \in ZeroHighs :
          LET s == Script(m, rd, f, z)
          IN /\ wave' = s.w
             /\ rest' = s.r
             /\ hist' = [hist EXCEPT !.startLog = Append(@, <<"high", 0>>),
                                     !.mode = m,
                                     !.sent = IF m = "ok" THEN f ELSE <<>>]
    /\ pc' = "st_wait"
    /\ UNCHANGED <<dwt, cycle, pinMode, tick, timeout, response, i, byte, frame,
                   led, out>>

\* delay_us(30U)
StartWait ==
    /\ pc = "st_wait"
    /\ wave' = Advance(wave, ReleaseUs)
    /\ hist' = [hist EXCEPT !.startLog = Append(@, <<"wait_us", ReleaseUs>>)]
    /\ pc' = "st_input"
    /\ UNCHANGED <<dwt, cycle, pinMode, mcuOut, rest, tick, timeout, response, i,
                   byte, frame, led, out>>

\* variant: the pin is left in output mode when DHT11_Start returns
StartSetInput_Missing ==
    /\ pc = "st_input"
    /\ hist' = [hist EXCEPT !.startLog = Append(@, <<"input", 0>>)]
    /\ pc' = "cr_call"
    /\ UNCHANGED <<dwt, cycle, pinMode, mcuOut, wave, rest, tick, timeout, response,
                   i, byte, frame, led, out>>

\* DHT11_SetPinInput()
StartSetInput ==
    /\ pc = "st_input"
    /\ pinMode' = "input"
    /\ hist' = [hist EXCEPT !.startLog = Append(@, <<"input", 0>>)]
    /\ pc' = "cr_call"
    /\ UNCHANGED <<dwt, cycle, mcuOut, wave, rest, tick, timeout, response, i, byte,
                   frame, led, out>>

----------------------------------------------------------------------------
(* DHT11_CheckResponse *)

\* variant: response keeps its value from the previous call (a static local)
CR_Enter_KeepsResponse ==
    /\ pc = "cr_call"
    /\ timeout' = ToU32(AckTimeoutBudget)
    /\ hist' = [hist EXCEPT !.polls = 0]
    /\ pc' = "cr_wait1"
    /\ UNCHANGED <<dwt, cycle, pinMode, mcuOut, wave, rest, tick, response, i, byte,
                   frame, led, out>>

\* uint8_t response = 0; uint32_t timeout = 100;
CR_Enter ==
    /\ pc = "cr_call"
    /\ response' = 0
    /\ timeout' = ToU32(AckTimeoutBudget)
    /\ hist' = [hist EXCEPT !.polls = 0]
    /\ pc' = "cr_wait1"
    /\ UNCHANGED <<dwt, cycle, pinMode, mcuOut, wave, rest, tick, i, byte, frame,
                   led, out>>

\* first loop, condition true: delay_us(1)
CR_Wait1Poll ==
    /\ pc = "cr_wait1"
    /\ PollCond(Line, timeout).go
    /\ timeout' = PollCond(Line, timeout).t
    /\ wave' = Advance(wave, PollStepUs)
    /\ hist' = [hist EXCEPT !.polls = @ + 1]
    /\ UNCHANGED <<dwt, pc, cycle, pinMode, mcuOut, rest, tick, response, i, byte,
                   frame, led, out>>

\* first loop, condition false
CR_Wait1Exit ==
    /\ pc = "cr_wait1"
    /\ ~PollCond(Line, timeout).go
    /\ timeout' = PollCond(Line, timeout).t
    /\ pc' = "cr_check"
    /\ UNCHANGED <<dwt, cycle, pinMode, mcuOut, wave, rest, tick, response, i, byte,
                   frame, led, out, hist>>

\* variant: the test for LOW left out, the HIGH test made unconditionally
CR_CheckLow_Unchecked ==
    /\ pc = "cr_check"
    /\ hist' = [hist EXCEPT !.lowSeen = (Line = 0)]
    /\ pc' = "cr_delay80"
    /\ UNCHANGED <<dwt, cycle, pinMode, mcuOut, wave, rest, tick, timeout, response,
                   i, byte, frame, led, out>>

\* if (!(HAL_GPIO_ReadPin(...)))
CR_CheckLow ==
    /\ pc = "cr_check"
    /\ hist' = [hist EXCEPT !.lowSeen = (Line = 0)]
    /\ pc' = IF Line = 0 THEN "cr_delay80" ELSE "cr_reload"
    /\ UNCHANGED <<dwt, cycle, pinMode, mcuOut, wave, rest, tick, timeout, response,
                   i, byte, frame, led, out>>

\* delay_us(80)
CR_Delay80 ==
    /\ pc = "cr_delay80"
    /\ wave' = Advance(wave, AckHighUs)
    /\ hist' = [hist EXCEPT !.sinceLowCheck = @ + AckHighUs]
    /\ pc' = "cr_checkhigh"
    /\ UNCHANGED <<dwt, cycle, pinMode, mcuOut, rest, tick, timeout, response, i,
                   byte, frame, led, out>>

\* if (HAL_GPIO_ReadPin(...)) response = 1;
CR_CheckHigh ==
    /\ pc = "cr_checkhigh"
    /\ response' = IF Line = 1 THEN 1 ELSE response
    /\ hist' = [hist EXCEPT !.ackHigh = (Line = 1), !.highSamples = @ + 1]
    /\ pc' = "cr_reload"
    /\ UNCHANGED <<dwt, cycle, pinMode, mcuOut, wave, rest, tick, timeout, i, byte,
                   frame, led, out>>

\* timeout = 100;
CR_Reload ==
    /\ pc = "cr_reload"
    /\ timeout' = ToU32(AckTimeoutBudget)
    /\ pc' = "cr_wait2"
    /\ UNCHANGED <<dwt, cycle, pinMode, mcuOut, wave, rest, tick, response, i, byte,
                   frame, led, out, hist>>

\* second loop, condition true: delay_us(1)
CR_Wait2Poll ==
    /\ pc = "cr_wait2"
    /\ PollCond(Line, timeout).go
    /\ timeout' = PollCond(Line, timeout).t
    /\ wave' = Advance(wave, PollStepUs)
    /\ hist' = [hist EXCEPT !.polls = @ + 1]
    /\ UNCHANGED <<dwt, pc, cycle, pinMode, mcuOut, rest, tick, response, i, byte,
                   frame, led, out>>

\* variant: running out of the second budget clears the response
CR_Wait2Exit_ReportsTimeout ==
    /\ pc = "cr_wait2"
    /\ ~PollCond(Line, timeout).go
    /\ timeout' = PollCond(Line, timeout).t
    /\ response' = IF Line = 1 THEN 0 ELSE response
    /\ hist' = [hist EXCEPT !.ackLowTimedOut = (Line = 1)]
    /\ pc' = "cr_ret"
    /\ UNCHANGED <<dwt, cycle, pinMode, mcuOut, wave, rest, tick, i, byte,
                   frame, led, out>>

\* second loop, condition false; the line still high means the budget ran out
CR_Wait2Exit ==
    /\ pc = "cr_wait2"
    /\ ~PollCond(Line, timeout).go
    /\ timeout' = PollCond(Line, timeout).t
    /\ hist' = [hist EXCEPT !.ackLowTimedOut = (Line = 1)]
    /\ pc' = "cr_ret"
    /\ UNCHANGED <<dwt, cycle, pinMode, mcuOut, wave, rest, tick, response, i, byte,
                   frame, led, out>>

\* return response;
CR_Return ==
    /\ pc = "cr_ret"
    /\ pc' = "rd_branch"
    /\ UNCHANGED <<dwt, cycle, pinMode, mcuOut, wave, rest, tick, timeout, response,
                   i, byte, frame, led, out, hist>>

----------------------------------------------------------------------------
(* DHT11_ReadByte *)

\* uint8_t byte = 0U; i = 0U
RB_Enter ==
    /\ pc = "rb_call"
    /\ i' = 0
    /\ byte' = 0
    /\ hist' = [hist EXCEPT !.calls = @ + 1]
    /\ pc' = "rb_waithigh"
    /\ UNCHANGED <<dwt, cycle, pinMode, mcuOut, wave, rest, tick, timeout, response,
                   frame, led, out>>

\* while (HAL_GPIO_ReadPin(...) == GPIO_PIN_RESET) { }
RB_WaitHigh ==
    /\ pc = "rb_waithigh"
    /\ wave' \in WaitFor(wave, rest, 1)
    /\ hist' = [hist EXCEPT !.sinceEdge = 0, !.fell = FALSE, !.samples = 0]
    /\ pc' = "rb_delay"
    /\ UNCHANGED <<dwt, cycle, pinMode, mcuOut, rest, tick, timeout, response, i,
                   byte, frame, led, out>>

\* delay_us(40U)
RB_Delay ==
    /\ pc = "rb_delay"
    /\ wave' = Advance(wave, DiscriminationUs)
    /\ hist' = [hist EXCEPT !.sinceEdge = @ + DiscriminationUs,
                            !.fell = EndsWithin(wave, DiscriminationUs)]
    /\ pc' = "rb_sample"
    /\ UNCHANGED <<dwt, cycle, pinMode, mcuOut, rest, tick, timeout, response, i,
                   byte, frame, led, out>>

\* if (HAL_GPIO_ReadPin(...) == GPIO_PIN_SET) set bit, else clear bit
RB_Sample ==
    /\ pc = "rb_sample"
    /\ byte' = BitUpdate(byte, i, Line)
    /\ hist' = [hist EXCEPT !.samples = @ + 1, !.bits = Append(@, Line)]
    /\ pc' = "rb_waitlow"
    /\ UNCHANGED <<dwt, cycle, pinMode, mcuOut, wave, rest, tick, timeout, response,
                   i, frame, led, out>>

\* while (HAL_GPIO_ReadPin(...) == GPIO_PIN_SET) { }  and  i++
RB_WaitLow ==
    /\ pc = "rb_waitlow"
    /\ wave' \in WaitFor(wave, rest, 0)
    /\ i' = i + 1
    /\ pc' = IF i + 1 < BitsPerByte THEN "rb_waithigh" ELSE "rb_ret"
    /\ UNCHANGED <<dwt, cycle, pinMode, mcuOut, rest, tick, timeout, response, byte,
                   frame, led, out, hist>>

\* return byte;  assigned to rh_int, rh_dec, t_int, t_dec, checksum in turn
RB_Return ==
    /\ pc = "rb_ret"
    /\ frame' = Append(frame, byte)
    /\ pc' = IF Len(frame) + 1 < FrameLen THEN "rb_call" ELSE "rd_validate"
    /\ UNCHANGED <<dwt, cycle, pinMode, mcuOut, wave, rest, tick, timeout, response,
                   i, byte, led, out, hist>>

----------------------------------------------------------------------------
(* ReadAndDisplayDHT11, after the start signal *)

\* if (DHT11_CheckResponse()) taken
RD_ReadFrame ==
    /\ pc = "rd_branch"
    /\ AckAccepted(response)
    /\ pc' = "rb_call"
    /\ UNCHANGED <<dwt, cycle, pinMode, mcuOut, wave, rest, tick, timeout, response,
                   i, byte, frame, led, out, hist>>

\* if (DHT11_CheckResponse()) not taken: falls to the end of the function
RD_NoAck ==
    /\ pc = "rd_branch"
    /\ ~AckAccepted(response)
    /\ hist' = [hist EXCEPT !.outcome = "noack"]
    /\ pc' = "rd_ret"
    /\ UNCHANGED <<dwt, cycle, pinMode, mcuOut, wave, rest, tick, timeout, response,
                   i, byte, frame, led, out>>

\* checksum matches: HAL_GPIO_TogglePin(GPIOA, GPIO_PIN_5)
RD_Toggle ==
    /\ pc = "rd_validate"
    /\ ChecksumValid(frame)
    /\ led' = TogglePin(led)
    /\ hist' = [hist EXCEPT !.toggles = @ + 1]
    /\ pc' = "rd_print"
    /\ UNCHANGED <<dwt, cycle, pinMode, mcuOut, wave, rest, tick, timeout, response,
                   i, byte, frame, out>>

\* printf of the reading
RD_PrintReading ==
    /\ pc = "rd_print"
    /\ out' = Append(out, ReadingLine(frame))
    /\ hist' = [hist EXCEPT !.readings = @ + 1, !.outcome = "reading",
                            !.emitTick = tick]
    /\ pc' = "rd_cooldown"
    /\ UNCHANGED <<dwt, cycle, pinMode, mcuOut, wave, rest, tick, timeout, response,
                   i, byte, frame, led>>

\* checksum differs: printf("DHT11 checksum error\r\n")
RD_ChecksumError ==
    /\ pc = "rd_validate"
    /\ ~ChecksumValid(frame)
    /\ out' = Append(out, ErrorLine)
    /\ hist' = [hist EXCEPT !.outcome = "checksum"]
    /\ pc' = "rd_cooldown"
    /\ UNCHANGED <<dwt, cycle, pinMode, mcuOut, wave, rest, tick, timeout, response,
                   i, byte, frame, led>>

\* HAL_Delay(2000), inside the if (DHT11_CheckResponse()) block
RD_Cooldown ==
    /\ pc = "rd_cooldown"
    /\ tick' = tick + CooldownMs
    /\ wave' = Advance(wave, CooldownMs * 1000)
    /\ hist' = [hist EXCEPT !.cooled = TRUE]
    /\ pc' = "rd_ret"
    /\ UNCHANGED <<dwt, cycle, pinMode, mcuOut, rest, timeout, response, i, byte,
                   frame, led, out>>

\* the function returns; its locals go out of scope
RD_Return ==
    /\ pc = "rd_ret"
    /\ pc' = "idle"
    /\ timeout' = ToU32(0)
    /\ i' = 0
    /\ byte' = 0
    /\ UNCHANGED <<dwt, cycle, pinMode, mcuOut, wave, rest, tick, response, frame,
                   led, out, hist>>

----------------------------------------------------------------------------
Next ==
    \/ Call \/ Stabilize
    \/ StartSetOutput \/ StartPullLow \/ StartHold \/ StartRelease
    \/ StartWait \/ StartSetInput
    \/ CR_Enter \/ CR_Wait1Poll \/ CR_Wait1Exit \/ CR_CheckLow \/ CR_Delay80
    \/ CR_CheckHigh \/ CR_Reload \/ CR_Wait2Poll \/ CR_Wait2Exit \/ CR_Return
    \/ RB_Enter \/ RB_WaitHigh \/ RB_Delay \/ RB_Sample \/ RB_WaitLow
    \/ RB_Return
    \/ RD_ReadFrame \/ RD_NoAck \/ RD_Toggle \/ RD_PrintReading
    \/ RD_ChecksumError \/ RD_Cooldown \/ RD_Return

Spec == Init /\ [][Next]_vars

\* the processor always executes its next instruction
FairSpec == Spec /\ WF_vars(Next)

----------------------------------------------------------------------------
(* Positions of a cycle *)

\* DHT11_CheckResponse has returned and the cycle it belongs to is the
\* latest one
AfterCheckResponse ==
    \/ pc \in {"rd_branch", "rb_call", "rb_waithigh", "rb_delay", "rb_sample",
               "rb_waitlow", "rb_ret", "rd_validate", "rd_print",
               "rd_cooldown", "rd_ret"}
    \/ pc = "idle" /\ cycle > 0

\* the checksum branch of the latest cycle has been executed
AfterValidation ==
    /\ Len(frame) = FrameLen
    /\ \/ pc \in {"rd_cooldown", "rd_ret"}
       \/ pc = "idle" /\ cycle > 0

\* ReadAndDisplayDHT11 has returned from the latest cycle
Returned == pc = "idle" /\ cycle > 0

\* the frame was accepted: its reading was printed and the LED toggled
Accepted ==
    /\ out = <<<<"Humidity", frame[1], frame[2], "Temperature", frame[3], frame[4]>>>>
    /\ hist.toggles = hist.togglesAtCall + 1

----------------------------------------------------------------------------
(* Claims *)

\* C1: a received frame is accepted (reading printed, LED toggled) if and
\* only if its fifth byte equals the sum of the first four modulo 256.
C1_AcceptedIffSumMod256 ==
    AfterValidation =>
        (Accepted <=>
            frame[5] = (frame[1] + frame[2] + frame[3] + frame[4]) % 256)

\* C2: in a cycle whose frame fails the checksum comparison, the line
\* "DHT11 checksum error" is printed exactly once, no reading is printed
\* and the LED is not toggled.
C2_ChecksumFailure ==
    (AfterValidation /\ frame[5] # frame[1] + frame[2] + frame[3] + frame[4])
        => /\ out = <<<<"DHT11 checksum error">>>>
           /\ hist.toggles = hist.togglesAtCall
           /\ led = hist.ledAtCall

C2_Witness ==
    /\ Returned
    /\ Len(frame) = FrameLen
    /\ frame[5] # frame[1] + frame[2] + frame[3] + frame[4]
    /\ out = <<<<"DHT11 checksum error">>>>

\* C3: in a cycle whose checksum comparison succeeds exactly one reading is
\* printed, with bytes 0..3 of the frame as humidity integer, humidity
\* fraction, temperature integer, temperature fraction, and the LED is
\* toggled exactly once; between a toggle and its print excepted, the
\* number of toggles equals the number of readings printed.
C3_ChecksumSuccess ==
    /\ (AfterValidation /\ frame[5] = frame[1] + frame[2] + frame[3] + frame[4])
          => /\ Accepted
             /\ led = 1 - hist.ledAtCall
    /\ pc # "rd_print" => hist.toggles = hist.readings

C3_Witness ==
    /\ Returned
    /\ hist.outcome = "reading"
    /\ hist.readings = 2
    /\ frame = <<50, 0, 24, 0, 74>>

\* C4: whenever ReadAndDisplayDHT11 returns, whatever the outcome, the
\* 2-second cool-down delay was executed in that cycle.
C4_CooldownOnEveryOutcome == Returned => hist.cooled

\* C5: when two consecutive cycles both print a reading, the start pulse of
\* the second begins at least 2000 ms after the first reading was printed.
C5_SuccessesTwoSecondsApart ==
    (hist.prevOutcome = "reading" /\ hist.outcome = "reading")
        => hist.startTick - hist.prevEmitTick >= 2000

C5_Witness ==
    /\ hist.prevOutcome = "reading"
    /\ hist.outcome = "reading"
    /\ Returned

\* C6: when the line stays high after the release, DHT11_CheckResponse makes
\* a bounded number of polls, returns 0, no byte is read, and the cycle
\* returns.
C6_NoResponseTerminates ==
    /\ [](hist.mode = "absent" =>
            /\ hist.polls <= 2 * 100
            /\ hist.calls = 0
            /\ (AfterCheckResponse => response = 0))
    /\ ((hist.mode = "absent" /\ pc = "cr_call") ~> Returned)

C6_Witness ==
    /\ hist.mode = "absent"
    /\ Returned
    /\ response = 0
    /\ hist.polls > 0

\* C7: when the line stays high after the release, DHT11_CheckResponse
\* returns after at most 150 delay_us(1) poll steps.
C7_FailureWithin150Polls ==
    (hist.mode = "absent" /\ pc = "cr_ret") => hist.polls <= 150

\* C8 as stated: when the ack-high phase was confirmed and the second wait
\* runs out of its budget with the line still high, DHT11_CheckResponse
\* reports failure and no data bit is read.
C8_AckLowTimeoutFails ==
    (AfterCheckResponse /\ hist.ackHigh /\ hist.ackLowTimedOut)
        => (response = 0 /\ hist.calls = 0)

\* C8 as amended: when the ack-high phase was confirmed and the second wait
\* runs out of its budget with the line still high, DHT11_CheckResponse
\* still returns 1 and the cycle goes on to DHT11_ReadByte.
C8_AckLowTimeoutIgnored ==
    (AfterCheckResponse /\ hist.ackHigh /\ hist.ackLowTimedOut)
        => /\ response = 1
           /\ hist.outcome # "noack"
           /\ pc \notin {"rd_branch", "rb_call"} => hist.calls >= 1

C8_Witness ==
    /\ hist.ackHigh
    /\ hist.ackLowTimedOut
    /\ hist.polls >= 100
    /\ pc = "rb_waitlow"

\* C9: in a cycle where DHT11_CheckResponse returned 0, DHT11_ReadByte is
\* never called, nothing is printed and the LED is unchanged.
C9_AckFailureExposesNothing ==
    (AfterCheckResponse /\ response = 0)
        => /\ hist.calls = 0
           /\ frame = <<>>
           /\ out = <<>>
           /\ led = hist.ledAtCall
           /\ hist.toggles = hist.togglesAtCall

C9_Witness ==
    /\ Returned
    /\ response = 0
    /\ hist.outcome = "noack"
    /\ hist.mode = "noackhigh"

\* C10: each bit is decided by one sample of the line taken 40 microseconds
\* after the rising edge was observed: 0 when the high phase has ended by
\* then, 1 when it has not.
C10_BitDiscrimination ==
    /\ pc \in {"rb_delay", "rb_sample"} => hist.samples = 0
    /\ pc = "rb_waitlow" =>
          /\ hist.samples = 1
          /\ hist.sinceEdge = 40
          /\ ByteBit(byte, i) = (IF hist.fell THEN 0 ELSE 1)

C10_Witness ==
    /\ pc = "rb_waitlow"
    /\ hist.fell
    /\ hist.mode = "ok"
    /\ byte > 0

----------------------------------------------------------------------------
(* What one cycle yields, as a function of the waveform injected in it *)

\* the value DHT11_CheckResponse returns for a waveform
ExpectedResponse(mode) ==
    IF mode \in {"ok", "ackhighstuck", "bitstall"} THEN 1 ELSE 0

\* the outcome of a cycle that returns, for a waveform
ExpectedOutcome(mode, sent) ==
    IF mode = "ok"
    THEN IF sent[5] = sent[1] + sent[2] + sent[3] + sent[4]
         THEN "reading" ELSE "checksum"
    ELSE "noack"

\* C11: the bytes read and the outcome of a cycle are a function of the
\* waveform injected in that cycle alone, whatever cycles came before.
C11_DecodeIsFunctionOfWaveform ==
    /\ AfterCheckResponse => response = ExpectedResponse(hist.mode)
    /\ (AfterCheckResponse /\ hist.mode = "ok") =>
          \A k \in 1..Len(frame) : frame[k] = hist.sent[k]
    /\ (AfterCheckResponse /\ hist.mode # "ok") => frame = <<>>
    /\ Returned => hist.outcome = ExpectedOutcome(hist.mode, hist.sent)
    /\ (Returned /\ hist.outcome = "reading") =>
          out = <<<<"Humidity", hist.sent[1], hist.sent[2],
                    "Temperature", hist.sent[3], hist.sent[4]>>>>

C11_Witness ==
    /\ Returned
    /\ cycle = 2
    /\ hist.prevOutcome = "checksum"
    /\ hist.outcome = "reading"
    /\ frame = hist.sent

----------------------------------------------------------------------------
(* delay_us and the DWT cycle counter, with 32-bit arithmetic on halves *)

\* a + n modulo 2^32, for 0 <= n < 65536
AddU32(a, n) ==
    LET lo == a[2] + n
    IN <<(a[1] + (lo \div HalfWord)) % HalfWord, lo % HalfWord>>

\* a - b modulo 2^32: DWT->CYCCNT - startTick
SubU32(a, b) ==
    LET lo == a[2] - b[2]
        borrow == IF lo < 0 THEN 1 ELSE 0
    IN <<(a[1] - b[1] - borrow) % HalfWord, lo % HalfWord>>

\* a < b on uint32_t
LtU32(a, b) == a[1] < b[1] \/ (a[1] = b[1] /\ a[2] < b[2])

\* us * (SystemCoreClock / 1000000) in uint32_t: the low 32 bits of the product
MulU32(u, c) ==
    LET lo == u[2] * c
        hi == u[1] * c + (lo \div HalfWord)
    IN <<hi % HalfWord, lo % HalfWord>>

\* the same product without truncation, as three 16-bit limbs
MulExact(u, c) ==
    LET lo == u[2] * c
        hi == u[1] * c + (lo \div HalfWord)
    IN <<hi \div HalfWord, hi % HalfWord, lo % HalfWord>>

\* a count of cycles below 2^31 as three 16-bit limbs
Limbs(e) == <<0, e \div HalfWord, e % HalfWord>>

\* a >= b on three-limb numbers
GeLimbs(a, b) ==
    \/ a[1] > b[1]
    \/ a[1] = b[1] /\ a[2] > b[2]
    \/ a[1] = b[1] /\ a[2] = b[2] /\ a[3] >= b[3]

\* arguments and clocks looked at: <<us, cycles per microsecond>>; the last
\* three have us * cycles per microsecond >= 2^32
DelayInputs ==
    { <<0, 16>>, <<1, 16>>, <<30, 16>>, <<1, 180>>, <<2, 180>>,
      <<268435456, 16>>, <<268435458, 16>>, <<23860930, 180>> }

\* values of DWT->CYCCNT at the call: 0, 2^31, 2^32 - 100, 2^32 - 1
StartCounts == { <<0, 0>>, <<32768, 0>>, <<65535, 65436>>, <<65535, 65535>> }

DelayInit ==
    /\ MainInit
    /\ \E in \in DelayInputs, c \in StartCounts :
          dwt = [pc |-> "call", us |-> ToU32(in[1]), cpm |-> in[2],
                 cyccnt |-> c, startTick |-> <<0, 0>>,
                 delayTicks |-> <<0, 0>>, elapsed |-> 0]

\* uint32_t startTick = DWT->CYCCNT; uint32_t delayTicks = us * (...);
Delay_Enter ==
    /\ dwt.pc = "call"
    /\ dwt' = [dwt EXCEPT !.startTick = dwt.cyccnt,
                          !.delayTicks = MulU32(dwt.us, dwt.cpm),
                          !.pc = "loop"]
    /\ UNCHANGED mainVars

\* while ((DWT->CYCCNT - startTick) < delayTicks) ;  condition true: the
\* counter has moved on by the next read
Delay_Spin ==
    /\ dwt.pc = "loop"
    /\ LtU32(SubU32(dwt.cyccnt, dwt.startTick), dwt.delayTicks)
    /\ \E d \in 1..MaxLoopCycles :
          dwt' = [dwt EXCEPT !.cyccnt = AddU32(dwt.cyccnt, d),
                             !.elapsed = @ + d]
    /\ UNCHANGED mainVars

\* condition false: delay_us returns
Delay_Exit ==
    /\ dwt.pc = "loop"
    /\ ~LtU32(SubU32(dwt.cyccnt, dwt.startTick), dwt.delayTicks)
    /\ dwt' = [dwt EXCEPT !.pc = "done"]
    /\ UNCHANGED mainVars

DelayNext == Delay_Enter \/ Delay_Spin \/ Delay_Exit

DelaySpec == DelayInit /\ [][DelayNext]_vars

\* C12: delay_us(us) returns only after at least us * cyclesPerMicrosecond
\* cycles of the counter have elapsed since the call, for every 32-bit us and
\* every starting counter value.
C12_DelayAtLeastRequested ==
    dwt.pc = "done" =>
        GeLimbs(Limbs(dwt.elapsed), MulExact(dwt.us, dwt.cpm))

----------------------------------------------------------------------------
(* The start sequence *)

\* positions at which the line is read
Sampling ==
    pc \in {"cr_wait1", "cr_check", "cr_checkhigh", "cr_wait2",
            "rb_waithigh", "rb_sample", "rb_waitlow"}

\* DHT11_Start has returned in the latest cycle
AfterStart ==
    \/ pc \in {"cr_call", "cr_wait1", "cr_check", "cr_delay80",
               "cr_checkhigh", "cr_reload", "cr_wait2", "cr_ret"}
    \/ AfterCheckResponse

\* C13: each cycle performs the start sequence once and in order: output,
\* line low, at least 18 ms, line high, a fixed 20..40 us, input; the line is
\* not read before the switch to input and the sequence is never repeated
\* within a cycle.
C13_StartSequence ==
    LET full == <<"output", "low", "hold_ms", "high", "wait_us", "input">>
        log == hist.startLog
    IN /\ Len(log) <= Len(full)
       /\ \A k \in 1..Len(log) : log[k][1] = full[k]
       /\ Len(log) >= 3 => log[3][2] >= 18
       /\ Len(log) >= 5 => (log[5][2] >= 20 /\ log[5][2] <= 40)
       /\ AfterStart => Len(log) = Len(full)
       /\ Sampling => (Len(log) = Len(full) /\ pinMode = "input")

C13_Witness ==
    /\ cycle = 2
    /\ pc = "cr_wait1"
    /\ hist.polls > 0
    /\ Len(hist.startLog) = 6

----------------------------------------------------------------------------
(* Assembly of the frame *)

\* C14: a cycle that reads a whole frame samples exactly 40 bits, and byte k
\* of the frame is the sum of d[8k+i] * 2^(7-i) over its own eight bits, in
\* the order humidity integer, humidity fraction, temperature integer,
\* temperature fraction, checksum.
C14_FrameFromBits ==
    LET d == hist.bits
    IN /\ Len(d) <= 40
       /\ Len(frame) = 5 => Len(d) = 40
       /\ \A k \in 1..Len(frame) :
             frame[k] = d[8 * (k - 1) + 1] * 128 + d[8 * (k - 1) + 2] * 64
                      + d[8 * (k - 1) + 3] * 32  + d[8 * (k - 1) + 4] * 16
                      + d[8 * (k - 1) + 5] * 8   + d[8 * (k - 1) + 6] * 4
                      + d[8 * (k - 1) + 7] * 2   + d[8 * (k - 1) + 8]
       /\ hist.mode = "ok" =>
             \A n \in 1..Len(d) : d[n] = FrameBit(hist.sent, n)

C14_Witness ==
    /\ AfterValidation
    /\ Len(hist.bits) = 40
    /\ frame = <<200, 100, 0, 0, 44>>

----------------------------------------------------------------------------
(* The value DHT11_CheckResponse returns *)

\* DHT11_CheckResponse is about to return or has returned in the latest cycle
ResponseDecided == pc = "cr_ret" \/ AfterCheckResponse

\* C15: DHT11_CheckResponse returns 0 or 1, and 1 exactly when the line was
\* low at the check after the first wait and high at the one sample taken
\* 80 microseconds later; every other case returns the same 0.
C15_ResponseValue ==
    ResponseDecided =>
        /\ response \in {0, 1}
        /\ response = 1 <=> (hist.lowSeen /\ hist.ackHigh)
        /\ hist.lowSeen => (hist.highSamples = 1 /\ hist.sinceLowCheck = 80)
        /\ ~hist.lowSeen => hist.highSamples = 0

C15_Witness ==
    /\ Returned
    /\ hist.lowSeen
    /\ ~hist.ackHigh
    /\ response = 0
    /\ hist.mode = "noackhigh"

----------------------------------------------------------------------------
(* Waits that end and waits that do not *)

\* the program spins in a busy-wait that no later level of the line ends
Hung == pc # "idle" /\ ~ENABLED Next

\* the per-bit waits of DHT11_ReadByte
BitWait == pc \in {"rb_waithigh", "rb_waitlow"}

\* C16 as stated: the only waits that can loop forever are the wait for the
\* end of the acknowledgment phase and the per-bit wait for HIGH; the
\* per-bit wait for LOW cannot block.
C16_OnlyAckEndAndBitHighBlock == Hung => pc \in {"cr_wait2", "rb_waithigh"}

\* C16 as amended: both waits of DHT11_CheckResponse end within their poll
\* budget of 100 each, and the only waits that can loop forever are the
\* per-bit wait for HIGH and the per-bit wait for LOW.
C16_OnlyBitWaitsBlock ==
    /\ Hung => BitWait
    /\ pc = "cr_wait1" => hist.polls <= 100
    /\ hist.polls <= 2 * 100

C16_Witness ==
    /\ Hung
    /\ pc = "rb_waitlow"
    /\ hist.mode = "ackhighstuck"
    /\ hist.polls > 100

\* C17: a cycle fails to return only when DHT11_CheckResponse returned 1 and
\* the line then stays low at a per-bit wait for HIGH or high at a per-bit
\* wait for LOW within the 40 bit slots; a line at one constant level from
\* the switch to input on never hangs the cycle; and if the line changes at
\* every per-bit wait, every cycle returns.
C17_HangOnlyInBitWaits ==
    /\ [](Hung =>
            /\ response = 1
            /\ BitWait
            /\ Len(hist.bits) < 40
            /\ wave = <<>>
            /\ rest = (IF pc = "rb_waithigh" THEN 0 ELSE 1))
    /\ [](hist.mode \in {"absent", "stucklow"} => ~Hung)
    /\ ((hist.mode \in {"absent", "stucklow"} /\ pc = "cr_call") ~> Returned)
    /\ ([](BitWait => ENABLED Next) => (pc = "rd_stabilize" ~> Returned))

C17_Witness ==
    /\ Hung
    /\ pc = "rb_waithigh"
    /\ response = 1
    /\ hist.mode = "bitstall"
    /\ Len(hist.bits) = StallBits

----------------------------------------------------------------------------
(* Pin direction *)

\* between DHT11_SetPinOutput and DHT11_SetPinInput inside DHT11_Start
InsideStartOutput == pc \in {"st_low", "st_hold", "st_release", "st_wait", "st_input"}

\* the next step is a HAL_GPIO_WritePin on the data pin
Writing == pc \in {"st_low", "st_release"}

\* C18: over any sequence of cycles the pin is in output mode exactly between
\* DHT11_SetPinOutput and DHT11_SetPinInput inside DHT11_Start; every write of
\* the line level happens in output mode, every sample of the line in
\* DHT11_CheckResponse and DHT11_ReadByte happens in input mode, and the pin
\* is in input mode whenever ReadAndDisplayDHT11 returns.
C18_PinDirection ==
    /\ pinMode \in {"input", "output"}
    /\ pinMode = "output" <=> InsideStartOutput
    /\ Writing => pinMode = "output"
    /\ Sampling => pinMode = "input"
    /\ Returned => pinMode = "input"

C18_Witness ==
    /\ cycle = MaxCycles
    /\ Returned
    /\ pinMode = "input"
    /\ Len(hist.startLog) = 6

=============================================================================
